---- MODULE Spec2Model ----
(***************************************************************************)
(* The qBittorrent monitor of homeassistant/components/qbittorrent:        *)
(* QBittorrentData (the snapshot and its update()), the setup sequence of  *)
(* QBittorrentClient.async_setup, and the callers of update() (the         *)
(* interval timer's refresh and the switches' turn_on / turn_off).         *)
(* Further specifications over the same state cover the Torrent type of    *)
(* qbittorrent_types, the switches, the state sensor and the interval      *)
(* timer of the client.                                                    *)
(*                                                                         *)
(* The qBittorrent server is a collaborator: every read of it              *)
(* (torrents.info(), torrent.info, transfer.info, speed_limits_mode) is an *)
(* input drawn from a bounded set, or a connectivity failure.              *)
(***************************************************************************)
EXTENDS Integers, Sequences, FiniteSets, TLC

(***************************************************************************)
(* The bounded universe of server answers.                                 *)
(***************************************************************************)
\* torrent["hash"]: unique within one answer of torrents.info()
Hashes == {1, 2}
\* torrent.name: not unique, two hashes may carry the same name
Names == {"A", "B"}
\* raw torrent states, one per class of the predicates the monitor reads:
\* downloading, downloading but paused, complete
States == {"downloading", "pausedDL", "uploading"}
\* dl_info_speed values of a fetched transfer info: 0 .. MaxSpeed
MaxSpeed == 1
\* calls of update() each thread makes in the statement-level specification
MaxCalls == 1

EVENT_STARTED_TORRENT == "qbittorrent_started_torrent"
EVENT_REMOVED_TORRENT == "qbittorrent_removed_torrent"
EVENT_DOWNLOADED_TORRENT == "qbittorrent_downloaded_torrent"
DATA_UPDATED == "qbittorrent_data_updated"

DEFAULT_SCAN_INTERVAL == 120

SWITCH_TYPE_ON_OFF == "on_off"
SWITCH_TYPE_ALTERNATIVE_SPEED == "alternative_speed"

\* the switches async_setup_entry of switch.py adds
SwitchTypes == {SWITCH_TYPE_ON_OFF, SWITCH_TYPE_ALTERNATIVE_SPEED}

STATE_ON == "on"
STATE_OFF == "off"

STATE_IDLE == "idle"
STATE_UP_DOWN == "up_down"
STATE_SEEDING == "seeding"
STATE_DOWNLOADING == "downloading"

LifecycleEvents ==
  {EVENT_STARTED_TORRENT, EVENT_REMOVED_TORRENT, EVENT_DOWNLOADED_TORRENT}

\* The answers of torrents.info(): lists of records with distinct hashes
\* (listed by ascending hash).
RECURSIVE ListsFrom(_)
ListsFrom(h) ==
  IF h \notin Hashes THEN {<< >>}
  ELSE LET rest == ListsFrom(h + 1)
       IN  rest \cup { <<[hash |-> h, name |-> n, state |-> s]>> \o r :
                         n \in Names, s \in States, r \in rest }

TorrentInfoLists == ListsFrom(1)

\* the keys of the transfer info that the accessors read; const.py defines
\* the two rate keys, the two limit keys are the names qBittorrent gives them
QBITTORRENT_INFO_KEY_DOWNLOAD_RATE == "dl_info_speed"
QBITTORRENT_INFO_KEY_UPLOAD_RATE == "up_info_speed"
QBITTORRENT_INFO_KEY_DOWNLOAD_LIMIT == "dl_rate_limit"
QBITTORRENT_INFO_KEY_UPLOAD_LIMIT == "up_rate_limit"

\* an answer of transfer.info: the server sends the rates and the limits
TransferInfo(download, upload) ==
  [dl_info_speed |-> download, up_info_speed |-> upload,
   dl_rate_limit |-> 0, up_rate_limit |-> 0]

\* The answers of transfer.info.
TransferInfos == { TransferInfo(d, 0) : d \in 0..MaxSpeed }

\* The answers of transfer.speed_limits_mode.
SpeedLimitsModes == {"0", "1"}

\* The collaborator call of update() that raises APIConnectionError, if any.
Failures == {"none", "torrents", "transfer", "mode"}

\* What the server may answer to the reads of update().
Answers ==
  [lists |-> TorrentInfoLists, transfers |-> TransferInfos,
   modes |-> SpeedLimitsModes]

(***************************************************************************)
(* torrent.state_enum predicates (qbittorrentapi.TorrentStates), as read   *)
(* by the monitor.  is_downloading holds of a paused download too, which   *)
(* is why check_started_torrent adds `and not ...is_paused`.               *)
(***************************************************************************)
is_complete(state) ==
  state \in {"uploading", "stalledUP", "checkingUP", "pausedUP", "queuedUP",
             "forcedUP"}

is_downloading(state) ==
  state \in {"downloading", "metaDL", "forcedMetaDL", "stalledDL", "checkingDL",
             "pausedDL", "queuedDL", "forcedDL"}

is_paused(state) == state \in {"pausedUP", "pausedDL"}

VARIABLES
  phase,                      \* async_setup: constructed / initialized / running / failed
  torrents,                   \* QBittorrentData._torrents
  completed_torrents,         \* QBittorrentData._completed_torrents
  started_torrents,           \* QBittorrentData._started_torrents
  all_torrents,               \* QBittorrentData._all_torrents
  transfer_info,              \* QBittorrentData._transfer_info
  alternative_speed_enabled,  \* QBittorrentData.alternative_speed_enabled
  available,                  \* QBittorrentData._available
  emitted,                    \* hass.bus.fire / dispatcher_send calls of the calls in flight, in order
  seen,                       \* the monitor's fields at the latest dispatcher_send
  last,                       \* the latest operation, the collaborator call that failed in it, and
                              \* the operation whose list it fetched again (repeats), if it ended well
  pc,                         \* per calling thread: its position in update()
  old_names,                  \* per calling thread: the local old_*_torrent_names
  calls,                      \* per calling thread: the calls of update() it has made
  data,                       \* the raw dictionary handed to Torrent(data), if any
  torrent,                    \* the Torrent constructed from data, if any
  speed_limits_mode,          \* the server's speed limits mode
  called,                     \* the latest call into the client by the timer, a switch or the
                              \* host: its name, the switch type, its argument, the commands,
                              \* waits and update() it ran, in order, and a bit that every call flips
  switch_state,               \* QBittorrentSwitch._state, per switch type
  sensor_state,               \* QBittorrentStateSensor._state
  fresh,                      \* the entities whose update() ran since the latest update() of the monitor
  options,                    \* config_entry.options[CONF_SCAN_INTERVAL], 0 when options is empty
  timers,                     \* the listeners registered by async_track_time_interval: their periods
  unsub_timer                 \* QBittorrentClient.unsub_timer: 0 (None) or the listener it removes

snapshot ==
  <<completed_torrents, started_torrents, all_torrents, transfer_info,
    alternative_speed_enabled>>

monitor == <<torrents, snapshot, available>>

types == <<data, torrent>>

entities == <<speed_limits_mode, called, switch_state, sensor_state, fresh>>

timer == <<options, timers, unsub_timer>>

ext == <<types, entities, timer>>

vars == <<phase, monitor, emitted, seen, last, pc, old_names, calls, ext>>

Threads == {"timer", "switch"}

(***************************************************************************)
(* Pure parts of QBittorrentData.                                          *)
(***************************************************************************)
torrent_names(list) == { list[i].name : i \in 1..Len(list) }

fire(type, list) ==
  [i \in 1..Len(list) |->
     [type |-> type, name |-> list[i].name, hash |-> list[i].hash]]

\* the comprehension of check_completed_torrent
current_completed_torrents(ts) ==
  SelectSeq(ts, LAMBDA t : is_complete(t.state))

\* a variant that forgets `and not is_paused`
current_started_torrents_with_paused(ts) ==
  SelectSeq(ts, LAMBDA t : is_downloading(t.state))

\* the comprehension of check_started_torrent
current_started_torrents(ts) ==
  SelectSeq(ts, LAMBDA t : is_downloading(t.state) /\ ~is_paused(t.state))

\* a variant that forgets the test against the old names
fire_downloaded_unfiltered(old_completed_torrent_names, ts) ==
  fire(EVENT_DOWNLOADED_TORRENT, current_completed_torrents(ts))

\* the loop of check_completed_torrent
fire_downloaded(old_completed_torrent_names, ts) ==
  fire(EVENT_DOWNLOADED_TORRENT,
       SelectSeq(current_completed_torrents(ts),
              LAMBDA t : t.name \notin old_completed_torrent_names))

\* a variant that tests the old names the wrong way round
fire_started_inverted(old_started_torrent_names, ts) ==
  fire(EVENT_STARTED_TORRENT,
       SelectSeq(current_started_torrents(ts),
              LAMBDA t : t.name \in old_started_torrent_names))

\* the loop of check_started_torrent
fire_started(old_started_torrent_names, ts) ==
  fire(EVENT_STARTED_TORRENT,
       SelectSeq(current_started_torrents(ts),
              LAMBDA t : t.name \notin old_started_torrent_names))

\* a variant that tests the records of the previous list against the names
\* of the fetched one
fire_removed_of_previous(ts) ==
  LET current_torrent_names == torrent_names(ts)
  IN  fire(EVENT_REMOVED_TORRENT,
           SelectSeq(all_torrents, LAMBDA t : t.name \notin current_torrent_names))

\* the loop of check_removed_torrent
fire_removed(ts) ==
  LET current_torrent_names == torrent_names(ts)
  IN  fire(EVENT_REMOVED_TORRENT,
           SelectSeq(ts, LAMBDA t : t.name \notin current_torrent_names))

dispatcher_send == <<[type |-> DATA_UPDATED, name |-> "", hash |-> 0]>>

\* the comprehensions of init_torrent_list: each record is kept by the state
\* that its own torrent.info (a fresh read of the server) reports
init_completed_torrents(ts, info) ==
  LET idx == { i \in 1..Len(ts) : is_complete(info[i]) }
  IN  SelectSeq(ts, LAMBDA t : \E i \in idx : ts[i] = t)

\* a variant that copies the completed test into the started comprehension
init_started_torrents_by_complete(ts, info) ==
  init_completed_torrents(ts, info)

init_started_torrents(ts, info) ==
  LET idx == { i \in 1..Len(ts) : is_downloading(info[i]) }
  IN  SelectSeq(ts, LAMBDA t : \E i \in idx : ts[i] = t)

(***************************************************************************)
(* The state after QBittorrentClient.__init__ and QBittorrentData.__init__ *)
(***************************************************************************)
\* no call into the monitor by the timer or a switch yet
NotCalled == [by |-> "none", type |-> "", arg |-> 0, steps |-> << >>, n |-> 0]

MonitorInit ==
  /\ phase = "constructed"
  /\ torrents = << >>
  /\ completed_torrents = << >>
  /\ started_torrents = << >>
  /\ all_torrents = << >>
  /\ transfer_info = [dl_info_speed |-> 0, up_info_speed |-> 0]
  /\ alternative_speed_enabled = FALSE
  /\ available = TRUE
  /\ emitted = << >>
  /\ seen = <<snapshot, available>>
  /\ last = [op |-> "none", fail |-> "none", repeats |-> "none",
              recovers |-> FALSE, shrinks |-> FALSE]
  /\ pc = [t \in Threads |-> "idle"]
  /\ old_names = [t \in Threads |-> {}]
  /\ calls = [t \in Threads |-> 0]

\* no Torrent constructed yet; `datas` are the dictionaries at hand
TypesInit(datas) ==
  /\ data \in datas
  /\ torrent = << >>

\* the switches and the state sensor as constructed, with a server in one
\* of `modes`
EntitiesInit(modes) ==
  /\ speed_limits_mode \in modes
  /\ called = NotCalled
  /\ switch_state = [type \in SwitchTypes |-> STATE_OFF]
  /\ sensor_state = "None"
  /\ fresh = {}

\* no timer registered yet; the entry's options hold one of `intervals`
TimerInit(intervals) ==
  /\ options \in intervals
  /\ timers = << >>
  /\ unsub_timer = 0

Init ==
  /\ MonitorInit
  /\ TypesInit({<< >>})
  /\ EntitiesInit({"0"})
  /\ TimerInit({0})

(***************************************************************************)
(* init_torrent_list, called once by async_setup.                          *)
(***************************************************************************)
init_torrent_list(ts, info) ==
  /\ torrents' = ts
  /\ completed_torrents' = init_completed_torrents(ts, info)
  /\ started_torrents' = init_started_torrents(ts, info)
  /\ UNCHANGED <<all_torrents, transfer_info, alternative_speed_enabled,
                 available>>

(***************************************************************************)
(* update(), run as a whole: `fail` names the collaborator call that       *)
(* raises APIConnectionError, ts / ti / mode are the answers of the calls  *)
(* that are reached.                                                       *)
(***************************************************************************)
\* a variant that sends the signal before the checks fire their events
update_emitted_signal_first(fired) == dispatcher_send \o fired

\* what update() emits: the events its checks fired, then the signal
update_emitted(fired) == fired \o dispatcher_send

\* a variant whose success path does not set the flag again
update_available_unset(fail) == available /\ fail = "none"

\* self._available = True at the end of the try block, False in the handler
update_available(fail) == fail = "none"

update(fail, ts, ti, mode) ==
  LET fetched == fail # "torrents"
      fired == IF fetched
               THEN fire_downloaded(torrent_names(completed_torrents), ts)
                    \o fire_started(torrent_names(started_torrents), ts)
                    \o fire_removed(ts)
               ELSE << >>
  IN  /\ torrents' = IF fetched THEN ts ELSE torrents
      /\ completed_torrents' =
           IF fetched THEN current_completed_torrents(ts) ELSE completed_torrents
      /\ started_torrents' =
           IF fetched THEN current_started_torrents(ts) ELSE started_torrents
      /\ all_torrents' = IF fetched THEN ts ELSE all_torrents
      /\ transfer_info' =
           IF fail \in {"none", "mode"} THEN ti ELSE transfer_info
      /\ alternative_speed_enabled' =
           IF fail = "none" THEN mode = "1" ELSE alternative_speed_enabled
      /\ available' = update_available(fail)
      /\ emitted' = update_emitted(fired)
      /\ seen' = <<snapshot', available'>>
      \* recovers: the update() before this one failed and this one did not;
      \* shrinks: a hash of the previous all list is absent from the fetched one
      /\ last' = [op |-> "update", fail |-> fail,
                  repeats |-> IF fetched /\ ts = torrents /\ last.fail = "none"
                              THEN last.op ELSE "none",
                  recovers |-> /\ fail = "none"
                               /\ last.op = "update" /\ last.fail # "none",
                  shrinks |-> /\ fetched
                              /\ \E i \in 1..Len(all_torrents) :
                                   \A j \in 1..Len(ts) :
                                     ts[j].hash # all_torrents[i].hash]

\* The answers update() reads when the call named by `fail` raises: a call
\* that is not reached has no answer (its place holds a fixed dummy).
ListsRead(fail, Lists) == IF fail = "torrents" THEN {<< >>} ELSE Lists

TransferInfosRead(fail, Transfers) ==
  IF fail \in {"torrents", "transfer"}
  THEN {[dl_info_speed |-> 0, up_info_speed |-> 0]}
  ELSE Transfers

ModesRead(fail, Modes) == IF fail = "none" THEN Modes ELSE {"0"}

\* update() against a server that may answer `answers`
Update(answers) ==
  \E fail \in Failures :
    \E ts \in ListsRead(fail, answers.lists),
       ti \in TransferInfosRead(fail, answers.transfers),
       mode \in ModesRead(fail, answers.modes) :
      update(fail, ts, ti, mode)

(***************************************************************************)
(* The interval timer of QBittorrentClient.                                *)
(***************************************************************************)
\* the listeners left when the one that `listener` names is removed
remove_listener(listeners, listener) ==
  LET i == CHOOSE i \in 1..Len(listeners) : listeners[i] = listener
  IN  SubSeq(listeners, 1, i - 1) \o SubSeq(listeners, i + 1, Len(listeners))

\* add_options: empty options get the scan interval of the entry's data,
\* which the config flow never stores, hence the default
add_options ==
  options' = IF options = 0 THEN DEFAULT_SCAN_INTERVAL ELSE options

\* a variant that does not call the previous unsub_timer
set_scan_interval_uncancelled(scan_interval) ==
  /\ timers' = Append(timers, scan_interval)
  /\ unsub_timer' = scan_interval

set_scan_interval(scan_interval) ==
  /\ timers' = Append(IF unsub_timer # 0
                      THEN remove_listener(timers, unsub_timer)
                      ELSE timers,
                      scan_interval)
  /\ unsub_timer' = scan_interval

(***************************************************************************)
(* async_setup: init_torrent_list, then update, then the timer and the     *)
(* platforms (the switches).                                               *)
(***************************************************************************)
AsyncSetupInit(Lists) ==
  /\ phase = "constructed"
  /\ \E ts \in Lists : \E info \in [1..Len(ts) -> States] :
       /\ init_torrent_list(ts, info)
       \* fail: "none" when every torrent.info agreed with the list, "stale"
       \* when the server changed between the list and a torrent.info
       /\ last' = [op |-> "init",
                   fail |-> IF \A i \in 1..Len(ts) : info[i] = ts[i].state
                            THEN "none" ELSE "stale",
                   repeats |-> "none", recovers |-> FALSE, shrinks |-> FALSE]
  /\ phase' = "initialized"
  /\ UNCHANGED <<emitted, seen, pc, old_names, calls, ext>>

\* torrents.info() or a torrent.info raises: async_setup ends with the error
AsyncSetupInitFails ==
  /\ phase = "constructed"
  /\ phase' = "failed"
  /\ last' = [op |-> "init", fail |-> "torrents", repeats |-> "none",
              recovers |-> FALSE, shrinks |-> FALSE]
  /\ UNCHANGED <<monitor, emitted, seen, pc, old_names, calls, ext>>

\* update(), add_options() and set_scan_interval(); the platforms then add
\* the sensors and the switches
AsyncSetupUpdate(answers) ==
  /\ phase = "initialized"
  /\ Update(answers)
  /\ add_options
  /\ set_scan_interval(options')
  /\ phase' = "running"
  /\ UNCHANGED <<pc, old_names, calls, types, entities>>

(***************************************************************************)
(* A poll run to its end with no other poll in flight: the timer's refresh *)
(* or the update() that ends a switch's turn_on / turn_off.                *)
(***************************************************************************)
Poll(answers) ==
  /\ phase = "running"
  /\ \A t \in Threads : pc[t] = "idle"
  /\ Update(answers)
  /\ UNCHANGED <<phase, pc, old_names, calls, ext>>

Next ==
  \/ AsyncSetupInit(TorrentInfoLists)
  \/ AsyncSetupInitFails
  \/ AsyncSetupUpdate(Answers)
  \/ Poll(Answers)

Spec == Init /\ [][Next]_vars

(***************************************************************************)
(* update() statement by statement, run by the executor threads of its     *)
(* callers: refresh (the interval timer registered by set_scan_interval)   *)
(* and QBittorrentSwitch.turn_on / turn_off.  Nothing in update() or in    *)
(* its callers takes a lock, so a caller enters update() whatever the      *)
(* other caller is doing.                                                  *)
(***************************************************************************)
\* the answers of torrents.info() in the statement-level specification
ConcTorrentInfoLists ==
  { l \in TorrentInfoLists : \A i \in 1..Len(l) : l[i].hash = 1 /\ l[i].name = "A" }

goto(t, label) == pc' = [pc EXCEPT ![t] = label]

InFlight == { t \in Threads : pc[t] # "idle" }

\* refresh / turn_on / turn_off reach self.api.update()
Call(t) ==
  /\ phase = "running"
  /\ pc[t] = "idle"
  /\ calls[t] < MaxCalls
  /\ calls' = [calls EXCEPT ![t] = @ + 1]
  /\ goto(t, "fetch")
  /\ emitted' = IF InFlight = {} THEN << >> ELSE emitted
  /\ UNCHANGED <<phase, monitor, seen, last, old_names, ext>>

\* self._torrents = self._client.torrents.info()
Fetch(t) ==
  /\ pc[t] = "fetch"
  /\ \E ts \in ConcTorrentInfoLists : torrents' = ts
  /\ goto(t, "completed")
  /\ UNCHANGED <<phase, snapshot, available, emitted, seen, last, old_names, calls, ext>>

\* a collaborator call raises APIConnectionError
Raises(t) ==
  /\ pc[t] \in {"fetch", "transfer", "mode"}
  /\ goto(t, "except")
  /\ UNCHANGED <<phase, monitor, emitted, seen, last, old_names, calls, ext>>

\* check_completed_torrent: old_completed_torrent_names = {...}
CompletedNames(t) ==
  /\ pc[t] = "completed"
  /\ old_names' = [old_names EXCEPT ![t] = torrent_names(completed_torrents)]
  /\ goto(t, "completed_fire")
  /\ UNCHANGED <<phase, monitor, emitted, seen, last, calls, ext>>

\* check_completed_torrent: the comprehension, the loop and the assignment
CompletedFire(t) ==
  /\ pc[t] = "completed_fire"
  /\ emitted' = emitted \o fire_downloaded(old_names[t], torrents)
  /\ completed_torrents' = current_completed_torrents(torrents)
  /\ goto(t, "started")
  /\ UNCHANGED <<phase, torrents, started_torrents, all_torrents, transfer_info,
                 alternative_speed_enabled, available, seen, last, old_names, calls, ext>>

\* check_started_torrent: old_started_torrent_names = {...}
StartedNames(t) ==
  /\ pc[t] = "started"
  /\ old_names' = [old_names EXCEPT ![t] = torrent_names(started_torrents)]
  /\ goto(t, "started_fire")
  /\ UNCHANGED <<phase, monitor, emitted, seen, last, calls, ext>>

\* check_started_torrent: the comprehension, the loop and the assignment
StartedFire(t) ==
  /\ pc[t] = "started_fire"
  /\ emitted' = emitted \o fire_started(old_names[t], torrents)
  /\ started_torrents' = current_started_torrents(torrents)
  /\ goto(t, "removed")
  /\ UNCHANGED <<phase, torrents, completed_torrents, all_torrents, transfer_info,
                 alternative_speed_enabled, available, seen, last, old_names, calls, ext>>

\* check_removed_torrent
Removed(t) ==
  /\ pc[t] = "removed"
  /\ emitted' = emitted \o fire_removed(torrents)
  /\ all_torrents' = torrents
  /\ goto(t, "transfer")
  /\ UNCHANGED <<phase, torrents, completed_torrents, started_torrents,
                 transfer_info, alternative_speed_enabled, available, seen, last,
                 old_names, calls, ext>>

\* self._transfer_info = self._client.transfer.info
Transfer(t) ==
  /\ pc[t] = "transfer"
  /\ \E ti \in TransferInfos : transfer_info' = ti
  /\ goto(t, "mode")
  /\ UNCHANGED <<phase, torrents, completed_torrents, started_torrents,
                 all_torrents, alternative_speed_enabled, available, emitted,
                 seen, last, old_names, calls, ext>>

\* self.alternative_speed_enabled = ...; self._available = True
Mode(t) ==
  /\ pc[t] = "mode"
  /\ \E mode \in SpeedLimitsModes : alternative_speed_enabled' = (mode = "1")
  /\ available' = TRUE
  /\ goto(t, "dispatch")
  /\ UNCHANGED <<phase, torrents, completed_torrents, started_torrents,
                 all_torrents, transfer_info, emitted, seen, last, old_names, calls, ext>>

\* except APIConnectionError: self._available = False
Except(t) ==
  /\ pc[t] = "except"
  /\ available' = FALSE
  /\ goto(t, "dispatch")
  /\ UNCHANGED <<phase, torrents, snapshot, emitted, seen, last, old_names, calls, ext>>

\* dispatcher_send(self.hass, self.signal_update)
Dispatch(t) ==
  /\ pc[t] = "dispatch"
  /\ emitted' = emitted \o dispatcher_send
  /\ seen' = <<snapshot, available>>
  /\ goto(t, "idle")
  /\ UNCHANGED <<phase, monitor, last, old_names, calls, ext>>

Step(t) ==
  \/ Call(t)
  \/ Fetch(t)
  \/ Raises(t)
  \/ CompletedNames(t)
  \/ CompletedFire(t)
  \/ StartedNames(t)
  \/ StartedFire(t)
  \/ Removed(t)
  \/ Transfer(t)
  \/ Mode(t)
  \/ Except(t)
  \/ Dispatch(t)

NextConc ==
  \/ AsyncSetupInit(ConcTorrentInfoLists)
  \/ AsyncSetupInitFails
  \/ AsyncSetupUpdate([Answers EXCEPT !.lists = ConcTorrentInfoLists])
  \/ \E t \in Threads : Step(t)

SpecConc == Init /\ [][NextConc]_vars

(***************************************************************************)
(* The monitor against a server whose torrents take more raw states: the   *)
(* ones that tell the library's is_downloading from the Downloading class  *)
(* of qbittorrent_types.                                                   *)
(***************************************************************************)
CountedStates == {"downloading", "forcedDL", "stalledDL", "pausedDL", "uploading"}

RECURSIVE CountedListsFrom(_)
CountedListsFrom(h) ==
  IF h \notin Hashes THEN {<< >>}
  ELSE LET rest == CountedListsFrom(h + 1)
       IN  rest \cup { <<[hash |-> h, name |-> "A", state |-> s]>> \o r :
                         s \in CountedStates, r \in rest }

CountedAnswers ==
  [lists |-> CountedListsFrom(1),
   transfers |-> {TransferInfo(0, 0)},
   modes |-> {"0"}]

\* a variant that counts the records of the whole list
active_torrent_count_of_all == Len(all_torrents)

active_torrent_count == Len(started_torrents)

NextCounted ==
  \/ AsyncSetupInit(CountedAnswers.lists)
  \/ AsyncSetupInitFails
  \/ AsyncSetupUpdate(CountedAnswers)
  \/ Poll(CountedAnswers)

SpecCounted == Init /\ [][NextCounted]_vars

(***************************************************************************)
(* qbittorrent_types: TorrentState and Torrent.  An Enum member is modelled *)
(* by its value: Python makes a member whose value is already taken an     *)
(* alias of the first member with that value, so that two members are      *)
(* equal exactly when their values are.                                    *)
(***************************************************************************)
TorrentState ==
  [DOWNLOADING |-> "downloading", UNKNOWN |-> "unknown", FAIL |-> "fail",
   SEEDING |-> "seeding", PAUSED |-> "seeding", DONE |-> "done",
   QUEUED |-> "queued", CHECKING |-> "checking", MOVING |-> "moving",
   STALLED |-> "stalled", METADATA |-> "metadata"]

from_qbittorrent_state(state) ==
  CASE state = "downloading" -> TorrentState.DOWNLOADING
    [] state = "forcedDL" -> TorrentState.DOWNLOADING
    [] state = "error" -> TorrentState.FAIL
    [] state = "missingFiles" -> TorrentState.FAIL
    [] state = "uploading" -> TorrentState.SEEDING
    [] state = "forcedUP" -> TorrentState.SEEDING
    [] state = "stalledUP" -> TorrentState.SEEDING
    [] state = "pausedDL" -> TorrentState.PAUSED
    [] state = "pausedUP" -> TorrentState.DONE
    [] state = "queuedUP" -> TorrentState.QUEUED
    [] state = "queuedDL" -> TorrentState.QUEUED
    [] state = "allocating" -> TorrentState.CHECKING
    [] state = "checkingDL" -> TorrentState.CHECKING
    [] state = "checkingUP" -> TorrentState.CHECKING
    [] state = "checkingResumeData" -> TorrentState.CHECKING
    [] state = "metaDL" -> TorrentState.METADATA
    [] state = "stalledDL" -> TorrentState.STALLED
    [] state = "moving" -> TorrentState.MOVING
    [] OTHER -> TorrentState.UNKNOWN

\* Torrent.__init__, of the fields the properties and the events read
Torrent(d) ==
  [hash |-> d.hash, name |-> d.name, state |-> from_qbittorrent_state(d.state)]

Torrent_is_completed(self) ==
  self.state = TorrentState.SEEDING \/ self.state = TorrentState.DONE

Torrent_is_downloading(self) == self.state = TorrentState.DOWNLOADING

\* the raw state strings of the match statement, and two that it lacks
RawStates ==
  {"downloading", "forcedDL", "error", "missingFiles", "uploading", "forcedUP",
   "stalledUP", "pausedDL", "pausedUP", "queuedUP", "queuedDL", "allocating",
   "checkingDL", "checkingUP", "checkingResumeData", "metaDL", "stalledDL",
   "moving", "forcedMetaDL", "unknown"}

TorrentData ==
  { [hash |-> h, name |-> n, state |-> s] :
      h \in Hashes, n \in Names, s \in RawStates }

InitTypes ==
  /\ MonitorInit
  /\ TypesInit({ <<d>> : d \in TorrentData })
  /\ EntitiesInit({"0"})
  /\ TimerInit({0})

\* Torrent(data)
TorrentInit ==
  /\ torrent = << >>
  /\ torrent' = <<Torrent(data[1])>>
  /\ UNCHANGED <<phase, monitor, emitted, seen, last, pc, old_names, calls,
                 data, entities, timer>>

NextTypes == TorrentInit

SpecTypes == InitTypes /\ [][NextTypes]_vars

(***************************************************************************)
(* The switches (switch.py) and the commands of the monitor they issue.    *)
(* The server keeps its speed limits mode: transfer_set_speed_limits_mode  *)
(* sets it, another client of the server may change it, and update() reads *)
(* it.                                                                     *)
(***************************************************************************)
\* the answers of torrents.info() in the specifications of the entities
EntityTorrentInfoLists ==
  { l \in ConcTorrentInfoLists :
      \A i \in 1..Len(l) : l[i].state = "downloading" }

SwitchAnswers ==
  [lists |-> EntityTorrentInfoLists,
   transfers |-> {TransferInfo(0, 0)},
   modes |-> {speed_limits_mode}]

\* the call `by`, of the switch `type`, with `arg`, ran `steps`
call(by, type, arg, steps) ==
  called' = [by |-> by, type |-> type, arg |-> arg, steps |-> steps,
             n |-> 1 - called.n]

IsCall == called'.n # called.n

\* refresh, the listener of the interval timer: self.api.update()
Refresh(answers) ==
  /\ phase \in {"running", "unloaded"}
  /\ timers # << >>
  /\ Update(answers)
  /\ call("refresh", "", 0, <<"update">>)
  /\ fresh' = {}
  /\ UNCHANGED <<phase, pc, old_names, calls, types, timer, speed_limits_mode,
                 switch_state, sensor_state>>

\* the collaborator calls and waits of resume_all_torrent, pause_all_torrent
\* and set_alternative_speed
resume_all_torrent_steps == <<"torrents_resume(all)", "sleep(3)">>

pause_all_torrent_steps == <<"torrents_pause(all)", "sleep(3)">>

set_alternative_speed_steps(enabled) ==
  <<IF enabled THEN "transfer_set_speed_limits_mode(True)"
    ELSE "transfer_set_speed_limits_mode(False)">>

\* the mode of the server after transfer_set_speed_limits_mode(enabled)
transfer_set_speed_limits_mode(enabled) == IF enabled THEN "1" ELSE "0"

resume_all_torrent ==
  /\ phase = "running"
  /\ call("resume_all_torrent", "", 0, resume_all_torrent_steps)
  /\ UNCHANGED <<phase, monitor, emitted, seen, last, pc, old_names, calls,
                 types, timer, speed_limits_mode, switch_state, sensor_state,
                 fresh>>

pause_all_torrent ==
  /\ phase = "running"
  /\ call("pause_all_torrent", "", 0, pause_all_torrent_steps)
  /\ UNCHANGED <<phase, monitor, emitted, seen, last, pc, old_names, calls,
                 types, timer, speed_limits_mode, switch_state, sensor_state,
                 fresh>>

\* a variant that also sets the flag of the monitor
set_alternative_speed_and_flag(enabled) ==
  /\ phase = "running"
  /\ speed_limits_mode' = transfer_set_speed_limits_mode(enabled)
  /\ alternative_speed_enabled' = enabled
  /\ call("set_alternative_speed", "", IF enabled THEN 1 ELSE 0,
          set_alternative_speed_steps(enabled))
  /\ UNCHANGED <<phase, torrents, completed_torrents, started_torrents,
                 all_torrents, transfer_info, available, emitted, seen, last, pc,
                 old_names, calls, types, timer, switch_state, sensor_state,
                 fresh>>

set_alternative_speed(enabled) ==
  /\ phase = "running"
  /\ speed_limits_mode' = transfer_set_speed_limits_mode(enabled)
  /\ call("set_alternative_speed", "", IF enabled THEN 1 ELSE 0,
          set_alternative_speed_steps(enabled))
  /\ UNCHANGED <<phase, monitor, emitted, seen, last, pc, old_names, calls,
                 types, timer, switch_state, sensor_state, fresh>>

\* the command of turn_on (on) or turn_off of a switch of `type`
switch_command(type, on) ==
  IF type = SWITCH_TYPE_ON_OFF
  THEN IF on THEN resume_all_torrent_steps ELSE pause_all_torrent_steps
  ELSE IF type = SWITCH_TYPE_ALTERNATIVE_SPEED
       THEN set_alternative_speed_steps(on)
       ELSE << >>

\* the mode of the server after the command of turn_on (on) or turn_off
switch_command_mode(type, on) ==
  IF type = SWITCH_TYPE_ALTERNATIVE_SPEED
  THEN transfer_set_speed_limits_mode(on)
  ELSE speed_limits_mode

\* a variant of turn_on / turn_off that runs update() before the command
turn_update_first(type, on) ==
  /\ phase = "running"
  /\ Update(SwitchAnswers)
  /\ speed_limits_mode' = switch_command_mode(type, on)
  /\ call(IF on THEN "turn_on" ELSE "turn_off", type, 0,
          <<"update">> \o switch_command(type, on))
  /\ fresh' = {}
  /\ UNCHANGED <<phase, pc, old_names, calls, types, timer, switch_state,
                 sensor_state>>

\* turn_on (on) and turn_off of a switch of `type`: the command, then
\* self._qb_client.api.update()
turn(type, on) ==
  /\ phase = "running"
  /\ speed_limits_mode' = switch_command_mode(type, on)
  /\ Update([SwitchAnswers EXCEPT !.modes = {speed_limits_mode'}])
  /\ call(IF on THEN "turn_on" ELSE "turn_off", type, 0,
          switch_command(type, on) \o <<"update">>)
  /\ fresh' = {}
  /\ UNCHANGED <<phase, pc, old_names, calls, types, timer, switch_state,
                 sensor_state>>

\* the command of turn_on / turn_off raises APIConnectionError, which nothing
\* on the way catches: update() is not reached
turn_raises(type, on) ==
  /\ phase = "running"
  /\ call(IF on THEN "turn_on" ELSE "turn_off", type, 0,
          <<switch_command(type, on)[1], "raise">>)
  /\ UNCHANGED <<phase, monitor, emitted, seen, last, pc, old_names, calls,
                 types, timer, speed_limits_mode, switch_state, sensor_state,
                 fresh>>

TurnOn(type) == turn(type, TRUE) \/ turn_raises(type, TRUE)

TurnOff(type) == turn(type, FALSE) \/ turn_raises(type, FALSE)

\* a variant that reads the flag for the on/off switch too
switch_update_by_flag(type, state) ==
  IF type \notin SwitchTypes THEN state
  ELSE IF alternative_speed_enabled THEN STATE_ON ELSE STATE_OFF

\* QBittorrentSwitch.update: the state of a switch of `type` that was `state`
switch_update(type, state) ==
  LET active == IF type = SWITCH_TYPE_ON_OFF
                THEN <<active_torrent_count > 0>>
                ELSE IF type = SWITCH_TYPE_ALTERNATIVE_SPEED
                     THEN <<alternative_speed_enabled>>
                     ELSE << >>
  IN  IF active = << >> THEN state
      ELSE IF active[1] THEN STATE_ON ELSE STATE_OFF

SwitchUpdate(type) ==
  /\ phase = "running"
  /\ switch_state' = [switch_state EXCEPT ![type] = switch_update(type, @)]
  /\ fresh' = fresh \cup {type}
  /\ UNCHANGED <<phase, monitor, emitted, seen, last, pc, old_names, calls,
                 types, timer, speed_limits_mode, called, sensor_state>>

\* another client of the server switches its speed limits mode
ServerModeChanges ==
  /\ speed_limits_mode' = IF speed_limits_mode = "0" THEN "1" ELSE "0"
  /\ UNCHANGED <<phase, monitor, emitted, seen, last, pc, old_names, calls,
                 types, timer, called, switch_state, sensor_state, fresh>>

InitSwitch ==
  /\ MonitorInit
  /\ TypesInit({<< >>})
  /\ EntitiesInit(SpeedLimitsModes)
  /\ TimerInit({0})

NextSwitch ==
  \/ AsyncSetupInit(SwitchAnswers.lists)
  \/ AsyncSetupInitFails
  \/ AsyncSetupUpdate(SwitchAnswers)
  \/ Refresh(SwitchAnswers)
  \/ resume_all_torrent
  \/ pause_all_torrent
  \/ \E enabled \in BOOLEAN : set_alternative_speed(enabled)
  \/ \E type \in SwitchTypes : TurnOn(type)
  \/ \E type \in SwitchTypes : TurnOff(type)
  \/ \E type \in SwitchTypes : SwitchUpdate(type)
  \/ ServerModeChanges

SpecSwitch == InitSwitch /\ [][NextSwitch]_vars

(***************************************************************************)
(* The state sensor (sensor.py), which reads the speeds of the monitor.    *)
(***************************************************************************)
\* the server reports byte rates: naturals
SensorAnswers ==
  [lists |-> EntityTorrentInfoLists,
   transfers |-> { TransferInfo(d, u) : d \in 0..MaxSpeed, u \in 0..MaxSpeed },
   modes |-> {"0"}]

download_speed == transfer_info.dl_info_speed

upload_speed == transfer_info.up_info_speed

\* a variant that takes the two speeds the other way round
state_sensor_update_swapped(download, upload) ==
  IF upload > 0 /\ download > 0 THEN STATE_UP_DOWN
  ELSE IF download > 0 /\ upload = 0 THEN STATE_SEEDING
  ELSE IF download = 0 /\ upload > 0 THEN STATE_DOWNLOADING
  ELSE STATE_IDLE

\* QBittorrentStateSensor.update: the state for the speeds it read
state_sensor_update(download, upload) ==
  IF upload > 0 /\ download > 0 THEN STATE_UP_DOWN
  ELSE IF upload > 0 /\ download = 0 THEN STATE_SEEDING
  ELSE IF upload = 0 /\ download > 0 THEN STATE_DOWNLOADING
  ELSE STATE_IDLE

\* self._transfer_info[key]: the value, or nothing when the key is missing
\* (KeyError)
transfer_info_get(key) ==
  IF key \in DOMAIN transfer_info THEN <<transfer_info[key]>> ELSE << >>

download_limit == transfer_info_get(QBITTORRENT_INFO_KEY_DOWNLOAD_LIMIT)

upload_limit == transfer_info_get(QBITTORRENT_INFO_KEY_UPLOAD_LIMIT)

SENSOR_TYPE_DOWNLOAD_SPEED == "download_speed"
SENSOR_TYPE_UPLOAD_SPEED == "upload_speed"
SENSOR_TYPE_DOWNLOAD_SPEED_LIMIT == "download_speed_limit"
SENSOR_TYPE_UPLOAD_SPEED_LIMIT == "upload_speed_limit"

\* the speed sensors async_setup_entry of sensor.py adds
SpeedSensorTypes ==
  {SENSOR_TYPE_DOWNLOAD_SPEED, SENSOR_TYPE_UPLOAD_SPEED,
   SENSOR_TYPE_DOWNLOAD_SPEED_LIMIT, SENSOR_TYPE_UPLOAD_SPEED_LIMIT}

\* what QBittorrentSpeedSensor.update reads for a sensor of `sensor_type`
speed_sensor_read(sensor_type) ==
  CASE sensor_type = SENSOR_TYPE_DOWNLOAD_SPEED
         -> transfer_info_get(QBITTORRENT_INFO_KEY_DOWNLOAD_RATE)
    [] sensor_type = SENSOR_TYPE_UPLOAD_SPEED
         -> transfer_info_get(QBITTORRENT_INFO_KEY_UPLOAD_RATE)
    [] sensor_type = SENSOR_TYPE_DOWNLOAD_SPEED_LIMIT -> download_limit
    [] sensor_type = SENSOR_TYPE_UPLOAD_SPEED_LIMIT -> upload_limit

\* QBittorrentSpeedSensor.update: the sensor shows what the accessor returns
\* (so the sensor counts as fresh), unless the accessor raises
SpeedSensorUpdate(sensor_type) ==
  /\ phase = "running"
  /\ fresh' = IF speed_sensor_read(sensor_type) # << >>
              THEN fresh \cup {sensor_type} ELSE fresh
  /\ UNCHANGED <<phase, monitor, emitted, seen, last, pc, old_names, calls,
                 types, timer, speed_limits_mode, called, switch_state,
                 sensor_state>>

StateSensorUpdate ==
  /\ phase = "running"
  /\ sensor_state' = state_sensor_update(download_speed, upload_speed)
  /\ fresh' = fresh \cup {"state"}
  /\ UNCHANGED <<phase, monitor, emitted, seen, last, pc, old_names, calls,
                 types, timer, speed_limits_mode, called, switch_state>>

NextSensor ==
  \/ AsyncSetupInit(SensorAnswers.lists)
  \/ AsyncSetupInitFails
  \/ AsyncSetupUpdate(SensorAnswers)
  \/ Refresh(SensorAnswers)
  \/ StateSensorUpdate
  \/ \E sensor_type \in SpeedSensorTypes : SpeedSensorUpdate(sensor_type)

SpecSensor == Init /\ [][NextSensor]_vars

(***************************************************************************)
(* The client and its interval timer: async_setup registers the first      *)
(* listener, set_scan_interval replaces it.                                *)
(***************************************************************************)
\* scan intervals of the options and of the calls of set_scan_interval
ScanIntervals == {60, 300}

TimerAnswers ==
  [lists |-> EntityTorrentInfoLists,
   transfers |-> {TransferInfo(0, 0)},
   modes |-> {"0"}]

\* the calls set_scan_interval makes
set_scan_interval_steps ==
  IF unsub_timer # 0
  THEN <<"unsub_timer()", "async_track_time_interval()">>
  ELSE <<"async_track_time_interval()">>

SetScanInterval(scan_interval) ==
  /\ phase = "running"
  /\ set_scan_interval(scan_interval)
  /\ call("set_scan_interval", "", scan_interval, set_scan_interval_steps)
  /\ UNCHANGED <<phase, monitor, emitted, seen, last, pc, old_names, calls,
                 types, options, speed_limits_mode, switch_state, sensor_state,
                 fresh>>

\* async_unload_entry, when the platforms unload: the sensors and the
\* switches are removed and the client is dropped from hass.data
AsyncUnloadEntry ==
  /\ phase = "running"
  /\ phase' = "unloaded"
  /\ call("async_unload_entry", "", 0, <<"async_unload_platforms()">>)
  /\ fresh' = {}
  /\ UNCHANGED <<monitor, emitted, seen, last, pc, old_names, calls, types,
                 timer, speed_limits_mode, switch_state, sensor_state>>

\* the entry may hold options of an earlier run of the options flow
InitTimer ==
  /\ MonitorInit
  /\ TypesInit({<< >>})
  /\ EntitiesInit({"0"})
  /\ TimerInit({0} \cup ScanIntervals)

NextTimer ==
  \/ AsyncSetupInit(TimerAnswers.lists)
  \/ AsyncSetupInitFails
  \/ AsyncSetupUpdate(TimerAnswers)
  \/ \E scan_interval \in ScanIntervals : SetScanInterval(scan_interval)
  \/ Refresh(TimerAnswers)
  \/ AsyncUnloadEntry

SpecTimer == InitTimer /\ [][NextTimer]_vars

(***************************************************************************)
(* Properties.                                                             *)
(***************************************************************************)
\* the number of events of `type` in `em`
Events(em, type) == Cardinality({ j \in 1..Len(em) : em[j].type = type })

\* the number of events of `type` in `em` that carry the record's {name, hash}
EventsFor(em, type, r) ==
  Cardinality({ j \in 1..Len(em) :
                  em[j].type = type /\ em[j].name = r.name /\ em[j].hash = r.hash })

\* every event of `type` in `em` carries the {name, hash} of a record of ts
EventsFrom(em, type, ts) ==
  \A j \in 1..Len(em) :
    em[j].type = type =>
      \E i \in 1..Len(ts) : em[j].name = ts[i].name /\ em[j].hash = ts[i].hash

Lifecycle(em) == Cardinality({ j \in 1..Len(em) : em[j].type \in LifecycleEvents })

Records(list) == { list[i] : i \in 1..Len(list) }

\* the latest operation was an update() in which no collaborator call failed
Successful == last.op = "update" /\ last.fail = "none"

\* the latest operation was an update() in which a collaborator call failed
Failed == last.op = "update" /\ last.fail # "none"

\* C1: if a collaborator call of update() fails, completed, started, all,
\* the transfer info and the alternate-speed flag are what they were before
\* the call, and available is false.
C1_FailureAtomicity ==
  [][Failed' => snapshot' = snapshot /\ available' = FALSE]_vars

\* C2: on every successful poll, every record of the previous all set whose
\* hash is absent from the fetched list gets a RemovedTorrent event with its
\* {name, hash}.
C2_RemovalDetected ==
  [][Successful' =>
       \A r \in Records(all_torrents) :
         (\A i \in 1..Len(torrents') : torrents'[i].hash # r.hash)
           => EventsFor(emitted', EVENT_REMOVED_TORRENT, r) >= 1]_vars

\* C3: on every successful poll, a DownloadedTorrent event {name, hash} is
\* emitted exactly once for each fetched record that is completed and whose
\* name is not a name of the previous completed set, and for no other
\* record; afterwards completed holds the completed records of the fetched
\* list.
C3_CompletedDiff ==
  [][Successful' =>
       /\ \A r \in Records(torrents') :
            EventsFor(emitted', EVENT_DOWNLOADED_TORRENT, r) =
              IF /\ is_complete(r.state)
                 /\ \A c \in Records(completed_torrents) : c.name # r.name
              THEN 1 ELSE 0
       /\ EventsFrom(emitted', EVENT_DOWNLOADED_TORRENT, torrents')
       /\ completed_torrents' =
            SelectSeq(torrents', LAMBDA t : is_complete(t.state))]_vars

\* a successful poll that fetched two completed records and fired one
\* DownloadedTorrent event: one name was new, the other was known
C3_Witness ==
  /\ Successful
  /\ Len(completed_torrents) = 2
  /\ Events(emitted, EVENT_DOWNLOADED_TORRENT) = 1

\* C4: on every successful poll, a StartedTorrent event is emitted exactly
\* for each fetched record that is downloading and not paused and whose name
\* is not a name of the previous started set; a record that was in started
\* and is fetched as paused is dropped from started and gets no
\* StartedTorrent event.
C4_StartedDiff ==
  [][Successful' =>
       /\ \A r \in Records(torrents') :
            EventsFor(emitted', EVENT_STARTED_TORRENT, r) =
              IF /\ is_downloading(r.state) /\ ~is_paused(r.state)
                 /\ \A c \in Records(started_torrents) : c.name # r.name
              THEN 1 ELSE 0
       /\ EventsFrom(emitted', EVENT_STARTED_TORRENT, torrents')
       /\ \A o \in Records(started_torrents) : \A r \in Records(torrents') :
            r.hash = o.hash /\ is_paused(r.state) =>
              /\ \A c \in Records(started_torrents') : c.hash # r.hash
              /\ \A j \in 1..Len(emitted') :
                   ~(emitted'[j].type = EVENT_STARTED_TORRENT
                     /\ emitted'[j].hash = r.hash)]_vars

\* a successful poll that found one record started anew and another one
\* paused, which is not in started and got no event
C4_Witness ==
  /\ Successful
  /\ Events(emitted, EVENT_STARTED_TORRENT) = 1
  /\ \E r \in Records(torrents) :
       /\ is_paused(r.state)
       /\ r \notin Records(started_torrents)
       /\ \A j \in 1..Len(emitted) : emitted[j].hash # r.hash

\* C5: every update(), successful or failed, emits exactly one DataUpdated
\* signal, after the lifecycle events of the poll and after the snapshot and
\* available were updated.
C5_OneSignalLast ==
  last.op = "update" =>
    /\ Events(emitted, DATA_UPDATED) = 1
    /\ emitted[Len(emitted)].type = DATA_UPDATED
    /\ seen = <<snapshot, available>>

\* a failed poll that fired lifecycle events before its signal
C5_Witness ==
  /\ Failed
  /\ Lifecycle(emitted) >= 1
  /\ emitted[Len(emitted)].type = DATA_UPDATED

\* C6: at most one update() is in flight at any time on one monitor.
C6_OnePollInFlight == Cardinality(InFlight) <= 1

\* C7: a successful poll that fetches the list the successful poll before it
\* fetched emits no lifecycle event, also when records share a name.
C7_Idempotent ==
  Successful /\ last.repeats = "update" => Lifecycle(emitted) = 0

\* the second of two successful polls of one list that holds two completed
\* records of the same name
C7_Witness ==
  /\ Successful
  /\ last.repeats = "update"
  /\ \E a, b \in Records(completed_torrents) : a.hash # b.hash /\ a.name = b.name

\* C8: init_torrent_list followed by a successful update() that fetches the
\* same list emits no lifecycle event, also for paused downloads.
C8_StableFirstPoll ==
  Successful /\ last.repeats = "init" => Lifecycle(emitted) = 0

\* the first poll after init_torrent_list, of the same list, which holds a
\* paused download (in started after the initialization, not after the poll)
\* and a running one
C8_Witness ==
  /\ Successful
  /\ last.repeats = "init"
  /\ \E r \in Records(torrents) : is_paused(r.state)
  /\ Len(started_torrents) = 1

\* C9: init_torrent_list sets completed to the completed records and started
\* to the downloading records of the fetched list, sets all to the fetched
\* list, and emits nothing.
C9_Initialize ==
  last.op = "init" /\ last.fail \in {"none", "stale"} =>
    /\ completed_torrents = SelectSeq(torrents, LAMBDA t : is_complete(t.state))
    /\ started_torrents = SelectSeq(torrents, LAMBDA t : is_downloading(t.state))
    /\ all_torrents = torrents
    /\ emitted = << >>

\* C10: in every state, all is the list of the most recent successful fetch,
\* and completed and started are its completed and its started records.
C10_TracksLatestFetch ==
  /\ all_torrents = torrents
  /\ completed_torrents = SelectSeq(torrents, LAMBDA t : is_complete(t.state))
  /\ started_torrents =
       SelectSeq(torrents, LAMBDA t : is_downloading(t.state) /\ ~is_paused(t.state))

\* QBittorrentSensor.available and QBittorrentSwitch.available
entity_available == available

\* C11: available is true in the initial state; after every update() it is
\* true exactly when no collaborator call of that update() failed, so also
\* after a successful update() that follows failed ones; the sensors and the
\* switches report available as this flag.
C11_Available ==
  /\ last.op = "none" => available
  /\ last.op = "update" => (available <=> last.fail = "none")
  /\ entity_available = available

\* a successful update() right after a failed one: available is true again
C11_Witness == Successful /\ last.recovers /\ entity_available

\* C12, as amended: after every successful update(), active_torrent_count is
\* the number of fetched records that the library calls downloading
\* (state_enum.is_downloading: stalledDL among them) and not paused; it is
\* the length of started.
C12_ActiveCount ==
  Successful =>
    /\ active_torrent_count =
         Cardinality({ i \in 1..Len(torrents) :
                         /\ is_downloading(torrents[i].state)
                         /\ ~is_paused(torrents[i].state) })
    /\ active_torrent_count = Len(started_torrents)

\* a successful update() that fetched a stalled and a paused download: the
\* stalled one counts, the paused one does not
C12_Witness ==
  /\ Successful
  /\ \E r \in Records(torrents) : r.state = "stalledDL"
  /\ \E r \in Records(torrents) : r.state = "pausedDL"
  /\ active_torrent_count = 1

\* C12, as stated: after every successful update(), active_torrent_count is
\* the number of fetched records whose raw state is classified Downloading
\* (downloading or forcedDL) and that are not paused.
C12_CountsClassDownloading ==
  Successful =>
    active_torrent_count =
      Cardinality({ i \in 1..Len(torrents) :
                      /\ from_qbittorrent_state(torrents[i].state)
                           = TorrentState.DOWNLOADING
                      /\ ~is_paused(torrents[i].state) })

\* the class the mapping table of the specification gives a raw state, by
\* the name of its TorrentState member
TableClass(raw) ==
  CASE raw \in {"downloading", "forcedDL"} -> "DOWNLOADING"
    [] raw \in {"error", "missingFiles"} -> "FAIL"
    [] raw \in {"uploading", "forcedUP", "stalledUP"} -> "SEEDING"
    [] raw = "pausedDL" -> "PAUSED"
    [] raw = "pausedUP" -> "DONE"
    [] raw \in {"queuedUP", "queuedDL"} -> "QUEUED"
    [] raw \in {"allocating", "checkingDL", "checkingUP", "checkingResumeData"}
         -> "CHECKING"
    [] raw = "metaDL" -> "METADATA"
    [] raw = "stalledDL" -> "STALLED"
    [] raw = "moving" -> "MOVING"
    [] OTHER -> "UNKNOWN"

\* C13: the state of a Torrent is the member the mapping table gives its raw
\* state, and raw states of different classes get different members.
C13_Classification ==
  torrent # << >> =>
    /\ torrent[1].state = TorrentState[TableClass(data[1].state)]
    /\ \A raw \in RawStates :
         TableClass(raw) # TableClass(data[1].state)
           => from_qbittorrent_state(raw) # torrent[1].state

\* C14: set_alternative_speed(enabled) issues transfer_set_speed_limits_mode
\* and nothing else: the snapshot (the flag included) and available are
\* unchanged and nothing is emitted.  The flag changes only in a successful
\* update(), which sets it to the mode the server has then.
C14_CommandOnly ==
  [][/\ IsCall /\ called'.by = "set_alternative_speed" =>
          /\ called'.steps \in {<<"transfer_set_speed_limits_mode(True)">>,
                                 <<"transfer_set_speed_limits_mode(False)">>}
          /\ snapshot' = snapshot
          /\ available' = available
          /\ emitted' = emitted
     /\ alternative_speed_enabled' # alternative_speed_enabled => Successful'
     /\ Successful' /\ (phase' # phase \/ (IsCall /\ "update" \in Records(called'.steps)))
          => alternative_speed_enabled' = (speed_limits_mode' = "1")]_vars

\* after a successful update(), set_alternative_speed(True) was called: the
\* server is in the alternative mode, the flag is not set
C14_Witness ==
  /\ Successful
  /\ called.by = "set_alternative_speed"
  /\ called.arg = 1
  /\ speed_limits_mode = "1"
  /\ ~alternative_speed_enabled

\* C15: no update() fires a RemovedTorrent event, whatever the lists fetched
\* before it and by it.
C15_NoRemovedEvent == Events(emitted, EVENT_REMOVED_TORRENT) = 0

\* a successful update() whose list lacks a record of the list before it
C15_Witness ==
  /\ Successful
  /\ last.shrinks
  /\ Events(emitted, EVENT_REMOVED_TORRENT) = 0

\* C16: a Torrent is completed exactly when its raw state is uploading,
\* forcedUP, stalledUP or pausedUP, and downloading exactly when its raw state
\* is downloading or forcedDL; one built from pausedDL is neither.
C16_CompletedDownloading ==
  torrent # << >> =>
    /\ Torrent_is_completed(torrent[1])
         <=> data[1].state \in {"uploading", "forcedUP", "stalledUP", "pausedUP"}
    /\ Torrent_is_downloading(torrent[1])
         <=> data[1].state \in {"downloading", "forcedDL"}

C18_SwitchState ==
  /\ SWITCH_TYPE_ON_OFF \in fresh =>
       (switch_state[SWITCH_TYPE_ON_OFF] = STATE_ON <=> active_torrent_count > 0)
  /\ SWITCH_TYPE_ALTERNATIVE_SPEED \in fresh =>
       (switch_state[SWITCH_TYPE_ALTERNATIVE_SPEED] = STATE_ON
          <=> alternative_speed_enabled)
  /\ \A type \in SwitchTypes : switch_state[type] \in {STATE_ON, STATE_OFF}
  /\ \A state \in {STATE_ON, STATE_OFF} : switch_update("other", state) = state
  /\ phase # "running" => \A type \in SwitchTypes : switch_state[type] = STATE_OFF

\* both switches updated after an update() that found a torrent started and
\* the server in its normal mode: the on/off switch is on, the other is off
C18_Witness ==
  /\ fresh = SwitchTypes
  /\ active_torrent_count > 0
  /\ ~alternative_speed_enabled
  /\ switch_state[SWITCH_TYPE_ON_OFF] = STATE_ON
  /\ switch_state[SWITCH_TYPE_ALTERNATIVE_SPEED] = STATE_OFF

\* C19: after QBittorrentStateSensor.update() the state is up_down when both
\* speeds of the monitor are above 0, seeding when only the upload speed is,
\* downloading when only the download speed is, and idle otherwise: one of
\* the four values for every pair of speeds.
C19_StatusSensor ==
  "state" \in fresh =>
    /\ sensor_state =
         CASE download_speed > 0 /\ upload_speed > 0 -> STATE_UP_DOWN
           [] ~(download_speed > 0) /\ upload_speed > 0 -> STATE_SEEDING
           [] download_speed > 0 /\ ~(upload_speed > 0) -> STATE_DOWNLOADING
           [] OTHER -> STATE_IDLE
    /\ sensor_state \in {STATE_UP_DOWN, STATE_SEEDING, STATE_DOWNLOADING, STATE_IDLE}

\* the sensor updated after an update() that read an upload speed above 0
\* and a download speed of 0
C19_Witness ==
  /\ "state" \in fresh
  /\ upload_speed > 0
  /\ download_speed = 0
  /\ sensor_state = STATE_SEEDING

\* C20: once async_setup has run, exactly one listener is registered, the one
\* unsub_timer removes; after a call of set_scan_interval its period is the
\* interval of the call, the listener before it having been removed first;
\* after a setup with empty options its period is DEFAULT_SCAN_INTERVAL.
C20_OneTimer ==
  [][/\ phase' = "running" => Len(timers') = 1 /\ timers'[1] = unsub_timer'
     /\ IsCall /\ called'.by = "set_scan_interval" =>
          /\ timers' = <<called'.arg>>
          /\ called'.steps = <<"unsub_timer()", "async_track_time_interval()">>
     /\ phase = "initialized" /\ phase' = "running" /\ options = 0 =>
          timers' = <<DEFAULT_SCAN_INTERVAL>>]_vars

\* a setup with empty options registered the default period, and a call of
\* set_scan_interval replaced it
C20_Witness ==
  /\ options = DEFAULT_SCAN_INTERVAL
  /\ called.by = "set_scan_interval"
  /\ called.arg # DEFAULT_SCAN_INTERVAL
  /\ timers = <<called.arg>>

\* C21: in a successful update() that follows a successful one, every
\* fetched record that is completed and whose hash is not a hash of the
\* completed list before gets a DownloadedTorrent event, and every fetched
\* record that is started and whose hash is not a hash of the started list
\* before gets a StartedTorrent event, also when records share a name.
C21_DetectionByHash ==
  [][Successful /\ Successful' =>
       \A r \in Records(torrents') :
         /\ (/\ is_complete(r.state)
             /\ \A c \in Records(completed_torrents) : c.hash # r.hash)
              => EventsFor(emitted', EVENT_DOWNLOADED_TORRENT, r) >= 1
         /\ (/\ is_downloading(r.state) /\ ~is_paused(r.state)
             /\ \A c \in Records(started_torrents) : c.hash # r.hash)
              => EventsFor(emitted', EVENT_STARTED_TORRENT, r) >= 1]_vars

\* C22: an update() that ends with available = false emits no lifecycle
\* event.
C22_FailedPollSilent == Failed => Lifecycle(emitted) = 0

\* C23: when the update() of the timer and the update() of a switch overlap,
\* no torrent gets more than one DownloadedTorrent and more than one
\* StartedTorrent event from the two together.
C23_ExactlyOnce ==
  \A h \in Hashes : \A type \in {EVENT_DOWNLOADED_TORRENT, EVENT_STARTED_TORRENT} :
    Cardinality({ j \in 1..Len(emitted) :
                    emitted[j].type = type /\ emitted[j].hash = h }) <= 1

\* C24: in every reachable state download_speed, upload_speed,
\* download_limit and upload_limit return a value.
C24_AccessorsReturn ==
  \A key \in {QBITTORRENT_INFO_KEY_DOWNLOAD_RATE, QBITTORRENT_INFO_KEY_UPLOAD_RATE,
               QBITTORRENT_INFO_KEY_DOWNLOAD_LIMIT, QBITTORRENT_INFO_KEY_UPLOAD_LIMIT} :
    transfer_info_get(key) # << >>

\* C25: async_unload_entry leaves no listener of the interval timer
\* registered, and once the entry is unloaded refresh runs no update() and
\* nothing is emitted.
C25_UnloadStopsPolling ==
  [][/\ phase' = "unloaded" => timers' = << >>
     /\ phase = "unloaded" =>
          /\ ~(IsCall /\ called'.by = "refresh")
          /\ emitted' = emitted
          /\ monitor' = monitor]_vars

====
